---- MODULE Spec2Model ----
(***************************************************************************)
(* A model of nt/database/iterator.py: the ExamplesIterator and the views  *)
(* built on it (MapIterator, ShuffleIterator, ReShuffleIterator,           *)
(* SliceIterator, FilterIterator, ConcatenateIterator).                    *)
(*                                                                         *)
(* A view is an entry of the table `views`; a view names its input views   *)
(* by their index in the table.  Every method is an operator that takes    *)
(* the table and returns the table it leaves behind together with what     *)
(* the call returned or raised, so that the lazily filled caches of        *)
(* ConcatenateIterator and the in-place shuffles of ReShuffleIterator are  *)
(* part of the state.                                                      *)
(*                                                                         *)
(* Python values: an example id is a str, modelled as the sequence of its  *)
(* characters; positions are 0-based integers; an exception is named by    *)
(* its class.                                                              *)
(*                                                                         *)
(* Spec is the value level: examples are values.  SpecIso is the object    *)
(* level: examples are dict objects on a heap, so that a copy and the      *)
(* original can be told apart.  SpecPasses is the generator level: a pass   *)
(* is a generator object the caller pulls one example at a time from.      *)
(***************************************************************************)
EXTENDS Integers, Sequences, FiniteSets, TLC

VARIABLES
    views,        \* the iterator objects constructed so far
    last,         \* the latest call and what it returned or raised
    firstPass,    \* history: a pass over a ShuffleIterator, and the order it yielded
    scalarIndex,  \* the numpy build: does a one-element integer array act as a list index
    heap,         \* object level: the dict objects, by reference
    handles,      \* object level: the examples handed to the caller
    building,     \* object level: the map functions of the Map views stacked on the source
    generators    \* generator level: the generator objects of ReShuffleIterator.__iter__

vars == <<views, last, firstPass, scalarIndex, heap, handles, building, generators>>

---------------------------------------------------------------------------
(* Bounds of the model *)

\* the number of views that are built on top of the sources
MaxViews == 2
\* the largest value of the field x of an example
MaxVal == 2
\* the number of dict objects the object-level model allocates
MaxObjs == 8
\* the longest array a view is asked to shuffle
MaxLen == 4
\* generator objects a caller holds
MaxPasses == 2

---------------------------------------------------------------------------
(* Python building blocks *)

Return(v) == [tag |-> "return", val |-> v]
ReturnNone == [tag |-> "none"]
Raise(e) == [tag |-> "raise", exc |-> e]

Returned(r) == r.tag = "return"
Raised(r, e) == r.tag = "raise" /\ r.exc = e

\* what a method call leaves behind: the views and the result
Call(vs, r) == [vs |-> vs, r |-> r]

Range(s) == {s[i] : i \in 1..Len(s)}

\* a Python list (of str) and a Python str, as returned by keys()
PyList(s) == [t |-> "list", v |-> s]
PyStr(s) == [t |-> "str", v |-> s]

\* list(x) for a list or a str: a str becomes the list of its characters
ListOf(k) == IF k.t = "list" THEN k.v ELSE [i \in 1..Len(k.v) |-> <<k.v[i]>>]

\* `key in x` for a list (membership) or a str (substring test)
IsSubstring(k, s) ==
    \E i \in 0..(Len(s) - Len(k)) : \A j \in 1..Len(k) : s[i + j] = k[j]

Contains(k, key) ==
    IF k.t = "list" THEN key \in Range(k.v) ELSE IsSubstring(key, k.v)

\* len(set(s)) for a list s
Distinct(s) == Cardinality(Range(s))

\* np.arange(n)
arange(n) == [i \in 1..n |-> i - 1]

\* seq[i] of a Python list or a numpy array with an integer i: a negative i
\* counts from the end, anything outside [-n, n) is an IndexError
InRange(s, i) == -Len(s) <= i /\ i < Len(s)
At(s, i) == IF i < 0 THEN s[Len(s) + i + 1] ELSE s[i + 1]

RECURSIVE Factorial(_)
Factorial(n) == IF n <= 1 THEN 1 ELSE n * Factorial(n - 1)

Remove(s, i) == [j \in 1..(Len(s) - 1) |-> IF j < i THEN s[j] ELSE s[j + 1]]

\* np.random.shuffle(array): the array rearranged in place; `seed` stands for
\* the state of the random generator and selects one of the Len(array)!
\* rearrangements
RECURSIVE shuffle(_, _)
shuffle(array, seed) ==
    IF Len(array) = 0 THEN <<>>
    ELSE LET i == (seed % Len(array)) + 1
         IN  <<array[i]>> \o shuffle(Remove(array, i), seed \div Len(array))

Seeds(n) == 0..(Factorial(n) - 1)

---------------------------------------------------------------------------
(* Example ids, examples, and the functions handed to map and filter *)

IdA == <<"a">>
IdAB == <<"a", "b">>
IdB == <<"b">>
IdC == <<"c">>
NoId == <<>>

\* the keys the caller asks for: every source stores some and lacks some
AskedIds == {IdA, IdAB, IdB}

\* an example as the caller sees it: the body plus keys.EXAMPLE_ID
Example(id, x) == [example_id |-> id, x |-> x]

\* the mappings the example sources are constructed from, in their key order
Examples1 == << [key |-> IdA, x |-> 0], [key |-> IdAB, x |-> 1] >>
Examples2 == << [key |-> IdB, x |-> 1] >>

\* map functions: "incr" changes its argument in place and returns it,
\* "relabel" overwrites the example id; both subscript their argument, so
\* None raises a TypeError
MapFns == {"incr", "relabel"}
IdPreserving(fn) == fn = "incr"

map_function(fn, ex) ==
    IF fn = "incr" THEN Example(ex.example_id, (ex.x + 1) % (MaxVal + 1))
    ELSE Example(IdC, ex.x)

\* filter functions: IdFilter(id_list), the id_list being [a, b] or [ab]
FilterFns == {"IdFilter(a,b)", "IdFilter(ab)"}

id_list(fn) == IF fn = "IdFilter(a,b)" THEN {IdA, IdB} ELSE {IdAB}

\* IdFilter.__call__
filter_function(fn, ex) == ex.example_id \in id_list(fn)

---------------------------------------------------------------------------
(* The iterator objects *)

NoKeys == [set |-> FALSE, v |-> <<>>]

View(kind) ==
    [ kind |-> kind,
      examples |-> <<>>,          \* ExamplesIterator.examples
      input |-> 0,                \* input_iterator / input_dataset
      inputs |-> <<>>,            \* ConcatenateIterator.input_iterators
      fn |-> "",                  \* map_function / filter_function
      permutation |-> <<>>,       \* (Re)ShuffleIterator.permutation
      slice |-> <<>>,             \* SliceIterator.slice
      _keys |-> NoKeys,           \* ConcatenateIterator._keys
      _chain_map |-> FALSE ]      \* ConcatenateIterator._chain_map is not None

ExamplesIterator(examples) == [View("Examples") EXCEPT !.examples = examples]
MapIterator(fn, v) == [View("Map") EXCEPT !.fn = fn, !.input = v]
FilterIterator(fn, v) == [View("Filter") EXCEPT !.fn = fn, !.input = v]
ConcatenateIterator(vins) == [View("Concatenate") EXCEPT !.inputs = vins]

\* the argument of __getitem__: a str or an integer
StrItem(s) == [t |-> "str", s |-> s, i |-> 0]
IntItem(i) == [t |-> "int", s |-> NoId, i |-> i]

---------------------------------------------------------------------------
(* __len__ *)

RECURSIVE len(_, _)

\* BaseIterator.__len__, inherited by FilterIterator
BaseIterator_len(vs, v) == Raise("NotImplementedError")

ExamplesIterator_len(vs, v) == Return(Len(vs[v].examples))

MapIterator_len(vs, v) == len(vs, vs[v].input)

ShuffleIterator_len(vs, v) == len(vs, vs[v].input)

ReShuffleIterator_len(vs, v) == len(vs, vs[v].input)

SliceIterator_len(vs, v) == Return(Len(vs[v].slice))

\* l + rest, unless len(i) raised for the one or for one of the others
AddLen(l, rest) ==
    IF ~Returned(l) THEN l
    ELSE IF ~Returned(rest) THEN rest
    ELSE Return(l.val + rest.val)

\* sum([len(i) for i in self.input_iterators]), from input j on
RECURSIVE SumLen(_, _, _)
SumLen(vs, vins, j) ==
    IF j > Len(vins) THEN Return(0)
    ELSE AddLen(len(vs, vins[j]), SumLen(vs, vins, j + 1))

ConcatenateIterator_len(vs, v) == SumLen(vs, vs[v].inputs, 1)

len(vs, v) ==
    CASE vs[v].kind = "Examples" -> ExamplesIterator_len(vs, v)
      [] vs[v].kind = "Map" -> MapIterator_len(vs, v)
      [] vs[v].kind = "Shuffle" -> ShuffleIterator_len(vs, v)
      [] vs[v].kind = "ReShuffle" -> ReShuffleIterator_len(vs, v)
      [] vs[v].kind = "Slice" -> SliceIterator_len(vs, v)
      [] vs[v].kind = "Filter" -> BaseIterator_len(vs, v)
      [] vs[v].kind = "Concatenate" -> ConcatenateIterator_len(vs, v)

---------------------------------------------------------------------------
(* keys *)

RECURSIVE keys(_, _)

\* BaseIterator.keys, inherited by FilterIterator
BaseIterator_keys(vs, v) == Call(vs, Raise("NotImplementedError"))

ExamplesIterator_keys(vs, v) ==
    Call(vs, Return(PyList([i \in 1..Len(vs[v].examples) |-> vs[v].examples[i].key])))

MapIterator_keys(vs, v) == keys(vs, vs[v].input)

ShuffleIterator_keys(vs, v) == keys(vs, vs[v].input)

ReShuffleIterator_keys(vs, v) == keys(vs, vs[v].input)

\* x[array] for a list or a str x and a numpy integer array: the array has to
\* act as one integer (__index__).  An array of one element does on a numpy
\* build that still converts it; every other array raises a TypeError
IndexByArray(x, array) ==
    IF scalarIndex /\ Len(array) = 1
    THEN IF ~InRange(x.v, array[1]) THEN Raise("IndexError")
         ELSE IF x.t = "list" THEN Return(PyStr(At(x.v, array[1])))
         ELSE Return(PyStr(<<At(x.v, array[1])>>))
    ELSE Raise("TypeError")

\* c[array], c being what self.input_iterator.keys() answered
IndexKeys(c, array) ==
    IF ~Returned(c.r) THEN c
    ELSE Call(c.vs, IndexByArray(c.r.val, array))

\* return self.input_iterator.keys()[self.slice]
SliceIterator_keys(vs, v) == IndexKeys(keys(vs, vs[v].input), vs[v].slice)

\* the loop of ConcatenateIterator.keys from input j on: self._keys is acc,
\* and c is what iterator.keys() answered for input j
RECURSIVE ExtendKeys(_, _, _, _)
RECURSIVE ExtendWith(_, _, _, _)
ExtendWith(c, vins, j, acc) ==
    IF ~Returned(c.r) THEN [vs |-> c.vs, acc |-> acc, r |-> c.r]
    ELSE ExtendKeys(c.vs, vins, j + 1, acc \o ListOf(c.r.val))

ExtendKeys(vs, vins, j, acc) ==
    IF j > Len(vins) THEN [vs |-> vs, acc |-> acc, r |-> ReturnNone]
    ELSE ExtendWith(keys(vs, vins[j]), vins, j, acc)

\* self._keys is assigned before the loop and before the assert: whatever the
\* loop e had collected when an exception left the method stays cached
CacheKeys(v, e) ==
    LET vs2 == [e.vs EXCEPT ![v]._keys = [set |-> TRUE, v |-> e.acc]]
    IN  IF e.r.tag = "raise" THEN Call(vs2, e.r)
        ELSE IF Len(e.acc) # Distinct(e.acc)
             THEN Call(vs2, Raise("AssertionError"))
             ELSE Call(vs2, Return(PyList(e.acc)))

ConcatenateIterator_keys(vs, v) ==
    IF vs[v]._keys.set THEN Call(vs, Return(PyList(vs[v]._keys.v)))
    ELSE CacheKeys(v, ExtendKeys(vs, vs[v].inputs, 1, <<>>))

keys(vs, v) ==
    CASE vs[v].kind = "Examples" -> ExamplesIterator_keys(vs, v)
      [] vs[v].kind = "Map" -> MapIterator_keys(vs, v)
      [] vs[v].kind = "Shuffle" -> ShuffleIterator_keys(vs, v)
      [] vs[v].kind = "ReShuffle" -> ReShuffleIterator_keys(vs, v)
      [] vs[v].kind = "Slice" -> SliceIterator_keys(vs, v)
      [] vs[v].kind = "Filter" -> BaseIterator_keys(vs, v)
      [] vs[v].kind = "Concatenate" -> ConcatenateIterator_keys(vs, v)

---------------------------------------------------------------------------
(* __getitem__ with a str or an integer *)

RECURSIVE getitem(_, _, _)

\* a variant of the two lines below that leaves out the second one: the copy
\* is returned without the id
StoredExampleWithoutId(examples, key) ==
    LET i == CHOOSE i \in 1..Len(examples) : examples[i].key = key
    IN  Example(NoId, examples[i].x)

\* example = deepcopy(self.examples[key]); example[keys.EXAMPLE_ID] = key
StoredExample(examples, key) ==
    LET i == CHOOSE i \in 1..Len(examples) : examples[i].key = key
    IN  Example(key, examples[i].x)

\* the first lines of ExamplesIterator.__getitem__: the key that item names
ExamplesIterator_key(vs, v, item) ==
    LET ks == ExamplesIterator_keys(vs, v).r.val.v
    IN  IF item.t = "str"
        THEN IF item.s \in Range(ks) THEN Return(item.s) ELSE Raise("IndexError")
        ELSE IF InRange(ks, item.i) THEN Return(At(ks, item.i))
             ELSE Raise("IndexError")

ExamplesIterator_getitem(vs, v, item) ==
    LET key == ExamplesIterator_key(vs, v, item)
    IN  IF ~Returned(key) THEN Call(vs, key)
        ELSE Call(vs, Return(StoredExample(vs[v].examples, key.val)))

\* self.map_function(x) for what the input returned
ApplyMap(fn, r) ==
    CASE r.tag = "return" -> Return(map_function(fn, r.val))
      [] r.tag = "none" -> Raise("TypeError")
      [] r.tag = "raise" -> r

\* self.map_function(c), c being what self.input_iterator[item] answered
Mapped(fn, c) == Call(c.vs, ApplyMap(fn, c.r))

MapIterator_getitem(vs, v, item) ==
    Mapped(vs[v].fn, getitem(vs, vs[v].input, item))

ShuffleIterator_getitem(vs, v, item) ==
    IF item.t = "str" THEN getitem(vs, vs[v].input, item)
    ELSE IF InRange(vs[v].permutation, item.i)
         THEN getitem(vs, vs[v].input, IntItem(At(vs[v].permutation, item.i)))
         ELSE Call(vs, Raise("IndexError"))

\* a variant of ReShuffleIterator.__getitem__ that serves an integer from
\* self.permutation, as ShuffleIterator.__getitem__ does
ReShuffleIterator_getitem_positional(vs, v, item) ==
    IF item.t = "str" THEN getitem(vs, vs[v].input, item)
    ELSE IF InRange(vs[v].permutation, item.i)
         THEN getitem(vs, vs[v].input, IntItem(At(vs[v].permutation, item.i)))
         ELSE Call(vs, Raise("IndexError"))

ReShuffleIterator_getitem(vs, v, item) ==
    IF item.t = "str" THEN getitem(vs, vs[v].input, item)
    ELSE Call(vs, Raise("TypeError"))

\* if key in self.keys(): ... else: raise IndexError(key), k being what
\* self.keys() answered
SliceIterator_getitem_str(k, vin, item) ==
    IF ~Returned(k.r) THEN k
    ELSE IF Contains(k.r.val, item.s) THEN getitem(k.vs, vin, item)
    ELSE Call(k.vs, Raise("IndexError"))

SliceIterator_getitem(vs, v, item) ==
    IF item.t = "int"
    THEN IF InRange(vs[v].slice, item.i)
         THEN getitem(vs, vs[v].input, IntItem(At(vs[v].slice, item.i)))
         ELSE Call(vs, Raise("IndexError"))
    ELSE SliceIterator_getitem_str(SliceIterator_keys(vs, v), vs[v].input, item)

\* if not self.filter_function(ex): raise IndexError(key), c being what
\* self.input_iterator[key] answered
Filtered(fn, c) ==
    CASE c.r.tag = "raise" -> c
      [] c.r.tag = "none" -> Call(c.vs, Raise("TypeError"))
      [] c.r.tag = "return" ->
           IF filter_function(fn, c.r.val) THEN c
           ELSE Call(c.vs, Raise("IndexError"))

FilterIterator_getitem(vs, v, item) ==
    IF item.t # "str" THEN Call(vs, Raise("AssertionError"))
    ELSE Filtered(vs[v].fn, getitem(vs, vs[v].input, item))

\* the loop of ConcatenateIterator.__getitem__ for an integer, from input j
\* on, l being len(iterator) of input j; falling off the end of the loop
\* returns None
RECURSIVE ConcatenateByPosition(_, _, _, _)
RECURSIVE ConcatenateStep(_, _, _, _, _)
ConcatenateStep(l, vs, vins, j, i) ==
    IF ~Returned(l) THEN Call(vs, l)
    ELSE IF l.val <= i THEN ConcatenateByPosition(vs, vins, j + 1, i - l.val)
    ELSE getitem(vs, vins[j], IntItem(i))

ConcatenateByPosition(vs, vins, j, i) ==
    IF j > Len(vins) THEN Call(vs, ReturnNone)
    ELSE ConcatenateStep(len(vs, vins[j]), vs, vins, j, i)

\* collections.ChainMap.__getitem__: the first map that does not raise a
\* KeyError answers, c being what map j answered; any other exception of a
\* map leaves the lookup
RECURSIVE ChainMap_getitem(_, _, _, _)
RECURSIVE ChainMap_next(_, _, _, _)
ChainMap_next(c, maps, j, key) ==
    IF Raised(c.r, "KeyError") THEN ChainMap_getitem(c.vs, maps, j + 1, key)
    ELSE c

ChainMap_getitem(vs, maps, j, key) ==
    IF j > Len(maps) THEN Call(vs, Raise("KeyError"))
    ELSE ChainMap_next(getitem(vs, maps[j], StrItem(key)), maps, j, key)

\* self.keys(); self._chain_map = ChainMap(*self.input_iterators), k being
\* what self.keys() answered
ConcatenateIterator_getitem_str(k, v, vins, item) ==
    IF ~Returned(k.r) THEN k
    ELSE ChainMap_getitem([k.vs EXCEPT ![v]._chain_map = TRUE], vins, 1, item.s)

ConcatenateIterator_getitem(vs, v, item) ==
    IF item.t = "int" THEN ConcatenateByPosition(vs, vs[v].inputs, 1, item.i)
    ELSE IF ~vs[v]._chain_map
         THEN ConcatenateIterator_getitem_str(ConcatenateIterator_keys(vs, v),
                                              v, vs[v].inputs, item)
         ELSE ChainMap_getitem(vs, vs[v].inputs, 1, item.s)

getitem(vs, v, item) ==
    CASE vs[v].kind = "Examples" -> ExamplesIterator_getitem(vs, v, item)
      [] vs[v].kind = "Map" -> MapIterator_getitem(vs, v, item)
      [] vs[v].kind = "Shuffle" -> ShuffleIterator_getitem(vs, v, item)
      [] vs[v].kind = "ReShuffle" -> ReShuffleIterator_getitem(vs, v, item)
      [] vs[v].kind = "Slice" -> SliceIterator_getitem(vs, v, item)
      [] vs[v].kind = "Filter" -> FilterIterator_getitem(vs, v, item)
      [] vs[v].kind = "Concatenate" -> ConcatenateIterator_getitem(vs, v, item)

---------------------------------------------------------------------------
(* __iter__: one pass, consumed to its end or to the exception that ends it *)

\* A pass leaves the views, the sequence `out` of what it yielded and how it
\* ended (ReturnNone: exhausted).  `draws` are the outcomes of the random
\* generator for the shuffles of the pass, n counts the ones used up.
Pass(vs, out, r, n) == [vs |-> vs, out |-> out, r |-> r, n |-> n]

RECURSIVE iter(_, _, _, _)

\* the pass `rest` after the elements `out`
After(out, rest) == [rest EXCEPT !.out = out \o @]

\* for idx in array: yield self.input_iterator[idx], c being what
\* self.input_iterator[array[j]] answered
RECURSIVE EachPosition(_, _, _, _, _)
RECURSIVE YieldPosition(_, _, _, _, _)
YieldPosition(c, vin, array, j, n) ==
    IF c.r.tag = "raise" THEN Pass(c.vs, <<>>, c.r, n)
    ELSE After(<<c.r>>, EachPosition(c.vs, vin, array, j + 1, n))

EachPosition(vs, vin, array, j, n) ==
    IF j > Len(array) THEN Pass(vs, <<>>, ReturnNone, n)
    ELSE YieldPosition(getitem(vs, vin, IntItem(array[j])), vin, array, j, n)

\* for k in self.keys(): yield self[k]
ExamplesIterator_iter(vs, v, draws, n) ==
    LET ks == ExamplesIterator_keys(vs, v).r.val.v
    IN  Pass(vs,
             [i \in 1..Len(ks) |-> ExamplesIterator_getitem(vs, v, StrItem(ks[i])).r],
             ReturnNone, n)

\* the elements of a pass up to the first one at which the consumer raises
FirstRaise(rs) ==
    IF \E i \in 1..Len(rs) : rs[i].tag = "raise"
    THEN CHOOSE i \in 1..Len(rs) :
            /\ rs[i].tag = "raise"
            /\ \A j \in 1..(i - 1) : rs[j].tag # "raise"
    ELSE 0

\* yield self.map_function(example) for the examples of the pass p over the
\* input
MappedPass(fn, p) ==
    LET mapped == [i \in 1..Len(p.out) |-> ApplyMap(fn, p.out[i])]
        k == FirstRaise(mapped)
    IN  IF k = 0 THEN [p EXCEPT !.out = mapped]
        ELSE [p EXCEPT !.out = SubSeq(mapped, 1, k - 1), !.r = mapped[k]]

\* for example in self.input_iterator: yield self.map_function(example)
MapIterator_iter(vs, v, draws, n) ==
    MappedPass(vs[v].fn, iter(vs, vs[v].input, draws, n))

\* self.filter_function(example) for an element of the input: None is not
\* subscriptable
ApplyFilter(fn, r) ==
    IF r.tag = "none" THEN Raise("TypeError")
    ELSE Return(filter_function(fn, r.val))

RECURSIVE Kept(_, _)
Kept(out, tests) ==
    IF Len(out) = 0 THEN <<>>
    ELSE (IF tests[1].val THEN <<out[1]>> ELSE <<>>)
         \o Kept(Tail(out), Tail(tests))

\* if self.filter_function(example): yield example, for the examples of the
\* pass p over the input
FilteredPass(fn, p) ==
    LET tests == [i \in 1..Len(p.out) |-> ApplyFilter(fn, p.out[i])]
        k == FirstRaise(tests)
    IN  IF k = 0 THEN [p EXCEPT !.out = Kept(p.out, tests)]
        ELSE [p EXCEPT !.out = Kept(SubSeq(p.out, 1, k - 1), SubSeq(tests, 1, k - 1)),
                       !.r = tests[k]]

\* for example in self.input_iterator:
\*     if self.filter_function(example): yield example
FilterIterator_iter(vs, v, draws, n) ==
    FilteredPass(vs[v].fn, iter(vs, vs[v].input, draws, n))

\* a variant of ShuffleIterator.__iter__ that rearranges self.permutation in
\* place before the pass, as ReShuffleIterator.__iter__ does
ShuffleIterator_iter_rearranging(vs, v, draws, n) ==
    LET permutation == shuffle(vs[v].permutation, 1)
        vs2 == [vs EXCEPT ![v].permutation = permutation]
    IN  EachPosition(vs2, vs[v].input, permutation, 1, n)

\* for idx in self.permutation: yield self.input_iterator[idx]
ShuffleIterator_iter(vs, v, draws, n) ==
    EachPosition(vs, vs[v].input, vs[v].permutation, 1, n)

\* np.random.shuffle(self.permutation), then the pass over it
ReShuffleIterator_iter(vs, v, draws, n) ==
    LET permutation == shuffle(vs[v].permutation, draws[n + 1])
        vs2 == [vs EXCEPT ![v].permutation = permutation]
    IN  EachPosition(vs2, vs[v].input, permutation, 1, n + 1)

SliceIterator_iter(vs, v, draws, n) ==
    EachPosition(vs, vs[v].input, vs[v].slice, 1, n)

\* for input_iterator in self.input_iterators:
\*     for example in input_iterator: yield example
\* p being the pass over input j
RECURSIVE ChainPasses(_, _, _, _, _)
RECURSIVE ChainNext(_, _, _, _)
ChainNext(p, vins, j, draws) ==
    IF p.r.tag = "raise" THEN p
    ELSE After(p.out, ChainPasses(p.vs, vins, j + 1, draws, p.n))

ChainPasses(vs, vins, j, draws, n) ==
    IF j > Len(vins) THEN Pass(vs, <<>>, ReturnNone, n)
    ELSE ChainNext(iter(vs, vins[j], draws, n), vins, j, draws)

ConcatenateIterator_iter(vs, v, draws, n) ==
    ChainPasses(vs, vs[v].inputs, 1, draws, n)

iter(vs, v, draws, n) ==
    CASE vs[v].kind = "Examples" -> ExamplesIterator_iter(vs, v, draws, n)
      [] vs[v].kind = "Map" -> MapIterator_iter(vs, v, draws, n)
      [] vs[v].kind = "Shuffle" -> ShuffleIterator_iter(vs, v, draws, n)
      [] vs[v].kind = "ReShuffle" -> ReShuffleIterator_iter(vs, v, draws, n)
      [] vs[v].kind = "Slice" -> SliceIterator_iter(vs, v, draws, n)
      [] vs[v].kind = "Filter" -> FilterIterator_iter(vs, v, draws, n)
      [] vs[v].kind = "Concatenate" -> ConcatenateIterator_iter(vs, v, draws, n)

\* the lengths of the arrays a pass over v shuffles, in the order of the pass
RECURSIVE Shuffled(_, _)
RECURSIVE ShuffledOfAll(_, _, _)
ShuffledOfAll(vs, vins, j) ==
    IF j > Len(vins) THEN <<>>
    ELSE Shuffled(vs, vins[j]) \o ShuffledOfAll(vs, vins, j + 1)

Shuffled(vs, v) ==
    CASE vs[v].kind \in {"Map", "Filter"} -> Shuffled(vs, vs[v].input)
      [] vs[v].kind = "ReShuffle" -> <<Len(vs[v].permutation)>>
      [] vs[v].kind = "Concatenate" -> ShuffledOfAll(vs, vs[v].inputs, 1)
      [] OTHER -> <<>>

Longest(lens) ==
    IF Len(lens) = 0 THEN 0
    ELSE CHOOSE m \in Range(lens) : \A l \in Range(lens) : l <= m

\* the outcomes the random generator can have for a pass over v
Draws(vs, v) ==
    LET lens == Shuffled(vs, v)
        most == Factorial(Longest(lens))
    IN  {d \in [1..Len(lens) -> 0..(most - 1)] :
            \A k \in 1..Len(lens) : d[k] \in Seeds(lens[k])}

---------------------------------------------------------------------------
(* Construction *)

\* the selectors of view[selector]: slice(start, stop) with either end
\* possibly None, and a list of positions
SliceSelector(hasStart, start, hasStop, stop) ==
    [t |-> "slice", hasStart |-> hasStart, start |-> start,
     hasStop |-> hasStop, stop |-> stop, list |-> <<>>]
ListSelector(list) ==
    [t |-> "list", hasStart |-> FALSE, start |-> 0,
     hasStop |-> FALSE, stop |-> 0, list |-> list]

\* view[1:], view[:1], view[:], view[[]], view[[0, 0]], view[[1, 0]], view[[2]]
Selectors ==
    { SliceSelector(TRUE, 1, FALSE, 0),
      SliceSelector(FALSE, 0, TRUE, 1),
      SliceSelector(FALSE, 0, FALSE, 0),
      ListSelector(<<>>),
      ListSelector(<<0, 0>>),
      ListSelector(<<1, 0>>),
      ListSelector(<<2>>) }

\* where an end of a slice lands in an array of length n
Clip(has, i, n, default) ==
    IF ~has THEN default
    ELSE IF i < 0 THEN (IF n + i < 0 THEN 0 ELSE n + i)
    ELSE IF i > n THEN n ELSE i

\* np.arange(n)[selector]
Resolve(n, sel) ==
    IF sel.t = "slice"
    THEN LET start == Clip(sel.hasStart, sel.start, n, 0)
             stop == Clip(sel.hasStop, sel.stop, n, n)
         IN  Return([i \in 1..(stop - start) |-> start + i - 1])
    ELSE IF \A j \in 1..Len(sel.list) : InRange(arange(n), sel.list[j])
         THEN Return([j \in 1..Len(sel.list) |-> At(arange(n), sel.list[j])])
         ELSE Raise("IndexError")

\* ShuffleIterator.__init__: needs len(input_iterator)
ShuffleIterator(vs, v, seed) ==
    LET l == len(vs, v)
    IN  IF ~Returned(l) THEN l
        ELSE Return([View("Shuffle") EXCEPT
                        !.input = v,
                        !.permutation = shuffle(arange(l.val), seed)])

ReShuffleIterator(vs, v) ==
    LET l == len(vs, v)
    IN  IF ~Returned(l) THEN l
        ELSE Return([View("ReShuffle") EXCEPT
                        !.input = v, !.permutation = arange(l.val)])

\* SliceIterator.__init__; of self._slice only the resolved self.slice is kept
SliceIterator(vs, sel, v) ==
    LET l == len(vs, v)
    IN  IF ~Returned(l) THEN l
        ELSE LET a == Resolve(l.val, sel)
             IN  IF ~Returned(a) THEN a
                 ELSE Return([View("Slice") EXCEPT !.input = v, !.slice = a.val])

\* view[selector] with a slice or a list: FilterIterator.__getitem__ asserts
\* that it is given a str, every other class hands the selector to
\* BaseIterator.__getitem__, which builds the SliceIterator
getitem_selector(vs, v, sel) ==
    IF vs[v].kind = "Filter" THEN Raise("AssertionError")
    ELSE SliceIterator(vs, sel, v)

---------------------------------------------------------------------------
(* The object level: dict objects, references to them, and copies *)

Sources == << ExamplesIterator(Examples1), ExamplesIterator(Examples2) >>

\* A dict object with the fields of an example; `sub` is the reference of the
\* dict nested in it (0: none).  The heap is the sequence of the objects, a
\* reference is an index into it.
Object(id, x, sub) == [example_id |-> id, x |-> x, sub |-> sub]

\* the objects self.examples of the first source is constructed from: the body
\* of example i at reference 2i - 1, the dict nested in it at reference 2i
StoredHeap ==
    [r \in 1..(2 * Len(Examples1)) |->
        IF r % 2 = 1 THEN Object(NoId, Examples1[(r + 1) \div 2].x, r + 1)
        ELSE Object(NoId, Examples1[r \div 2].x, 0)]

\* self.examples[key]
StoredRef(examples, key) ==
    2 * (CHOOSE i \in 1..Len(examples) : examples[i].key = key) - 1

\* the value of an object with the values of the objects it refers to
Deep(h, ref) ==
    [example_id |-> h[ref].example_id, x |-> h[ref].x, sub |-> h[h[ref].sub].x]

\* copy.copy(obj): a new dict that refers to the nested dict of the original
copy(h, ref) == [heap |-> Append(h, h[ref]), ref |-> Len(h) + 1]

\* copy.deepcopy(obj): a new dict that refers to a new copy of the nested dict
deepcopy(h, ref) ==
    IF h[ref].sub = 0 THEN [heap |-> Append(h, h[ref]), ref |-> Len(h) + 1]
    ELSE [heap |-> h \o << [h[ref] EXCEPT !.sub = Len(h) + 2], h[h[ref].sub] >>,
          ref |-> Len(h) + 1]

\* ExamplesIterator.__getitem__ on objects: returns a reference
ExamplesIterator_getitem_object(h, vs, v, item) ==
    LET key == ExamplesIterator_key(vs, v, item)
    IN  IF ~Returned(key) THEN [heap |-> h, r |-> key]
        ELSE LET c == deepcopy(h, StoredRef(vs[v].examples, key.val))
             IN  [heap |-> [c.heap EXCEPT ![c.ref].example_id = key.val],
                  r |-> Return(c.ref)]

\* map_function(example) on objects: both functions change their argument in
\* place and return it; "incr" changes the nested dict as well
map_function_in_place(h, fn, ref) ==
    IF fn = "incr"
    THEN [h EXCEPT ![ref].x = (@ + 1) % (MaxVal + 1),
                   ![h[ref].sub].x = (@ + 1) % (MaxVal + 1)]
    ELSE [h EXCEPT ![ref].example_id = IdC]

\* MapIterator.__getitem__ of the Map views stacked on the source, from the
\* j-th on: self.map_function(self.input_iterator[item])
RECURSIVE MapIterator_getitem_object(_, _, _, _)
MapIterator_getitem_object(h, fns, j, item) ==
    IF j = 0 THEN ExamplesIterator_getitem_object(h, Sources, 1, item)
    ELSE LET c == MapIterator_getitem_object(h, fns, j - 1, item)
         IN  IF ~Returned(c.r) THEN c
             ELSE [heap |-> map_function_in_place(c.heap, fns[j], c.r.val),
                   r |-> c.r]

\* ExamplesIterator.__iter__ and MapIterator.__iter__ on objects, from key j
\* on: the references the pass yields
RECURSIVE iter_object(_, _, _, _)
iter_object(h, fns, ks, j) ==
    IF j > Len(ks) THEN [heap |-> h, out |-> <<>>]
    ELSE LET c == MapIterator_getitem_object(h, fns, Len(fns), StrItem(ks[j]))
             rest == iter_object(c.heap, fns, ks, j + 1)
         IN  [rest EXCEPT !.out = <<c.r.val>> \o @]

---------------------------------------------------------------------------
(* The state machine *)

Ids(vs) == DOMAIN vs

CanBuild == Len(views) < Len(Sources) + MaxViews

Did(op, v, item, r, out) ==
    [op |-> op, view |-> v, item |-> item, r |-> r, out |-> out]

NoPass == [view |-> 0, out |-> <<>>, r |-> ReturnNone, later |-> FALSE]

ObjectLevelUnchanged == UNCHANGED <<heap, handles, building, generators>>

\* a constructor returned the view w, or raised
Built(op, w) ==
    /\ IF Returned(w)
       THEN /\ views' = Append(views, w.val)
            /\ last' = Did(op, Len(views) + 1, IntItem(0), ReturnNone, <<>>)
       ELSE /\ views' = views
            /\ last' = Did(op, 0, IntItem(0), w, <<>>)
    /\ UNCHANGED <<firstPass, scalarIndex>>
    /\ ObjectLevelUnchanged

\* view.map(map_fn)
Map(v, fn) == CanBuild /\ Built("map", Return(MapIterator(fn, v)))

\* view.filter(filter_fn)
Filter(v, fn) == CanBuild /\ Built("filter", Return(FilterIterator(fn, v)))

\* the caller shuffles views of at most MaxLen examples
Shufflable(v) ==
    LET l == len(views, v) IN Returned(l) => l.val <= MaxLen

\* view.shuffle(reshuffle=False)
Shuffle(v) ==
    /\ CanBuild
    /\ Shufflable(v)
    /\ LET l == len(views, v)
       IN  \E seed \in Seeds(IF Returned(l) THEN l.val ELSE 0) :
              Built("shuffle", ShuffleIterator(views, v, seed))

\* view.shuffle(reshuffle=True)
ReShuffle(v) ==
    CanBuild /\ Shufflable(v) /\ Built("reshuffle", ReShuffleIterator(views, v))

\* view[selector]
Slice(v, sel) == CanBuild /\ Built("slice", getitem_selector(views, v, sel))

\* view.concatenate(*others)
Concatenate(v, others) ==
    CanBuild /\ Built("concatenate", Return(ConcatenateIterator(<<v>> \o others)))

\* len(view)
DoLen(v) ==
    /\ last' = Did("len", v, IntItem(0), len(views, v), <<>>)
    /\ UNCHANGED <<views, firstPass, scalarIndex>>
    /\ ObjectLevelUnchanged

\* view.keys()
DoKeys(v) ==
    /\ LET c == keys(views, v)
       IN  /\ views' = c.vs
           /\ last' = Did("keys", v, IntItem(0), c.r, <<>>)
    /\ UNCHANGED <<firstPass, scalarIndex>>
    /\ ObjectLevelUnchanged

\* view[item] with a str or an integer
DoGetItem(v, item) ==
    /\ LET c == getitem(views, v, item)
       IN  /\ views' = c.vs
           /\ last' = Did("getitem", v, item, c.r, <<>>)
    /\ UNCHANGED <<firstPass, scalarIndex>>
    /\ ObjectLevelUnchanged

\* list(view): one pass.  One pass over a ShuffleIterator is remembered, and
\* so is that a later pass over the same view has been made
DoIter(v) ==
    /\ \E draws \in Draws(views, v) :
          LET p == iter(views, v, draws, 0)
          IN  /\ views' = p.vs
              /\ last' = Did("iter", v, IntItem(0), p.r, p.out)
              /\ IF firstPass.view = v
                 THEN firstPass' = [firstPass EXCEPT !.later = TRUE]
                 ELSE \/ firstPass' = firstPass
                      \/ /\ firstPass.view = 0
                         /\ views[v].kind = "Shuffle"
                         /\ firstPass' = [view |-> v, out |-> p.out,
                                          r |-> p.r, later |-> FALSE]
    /\ UNCHANGED scalarIndex
    /\ ObjectLevelUnchanged

\* the positions a caller asks a view for: every position of the view, the
\* first one past its end, and -1
Positions(v) ==
    LET l == len(views, v)
    IN  IF Returned(l) THEN -1..l.val ELSE -1..1

\* The caller reads the pipeline through the view built last (at the start:
\* through either source).  Building a view changes no view below it, and a
\* view reads the views below it only through their methods, so a call on an
\* older view is the same call made before the newer views were built.
Newest == IF Len(views) = Len(Sources) THEN Ids(views) ELSE {Len(views)}

Init ==
    /\ views = Sources
    /\ last = Did("init", 0, IntItem(0), ReturnNone, <<>>)
    /\ firstPass = NoPass
    /\ scalarIndex \in BOOLEAN
    /\ heap = StoredHeap
    /\ handles = <<>>
    /\ building = <<>>
    /\ generators = <<>>

Next ==
    \/ \E v \in Ids(views), fn \in MapFns : Map(v, fn)
    \/ \E v \in Ids(views), fn \in FilterFns : Filter(v, fn)
    \/ \E v \in Ids(views) : Shuffle(v)
    \/ \E v \in Ids(views) : ReShuffle(v)
    \/ \E v \in Ids(views), sel \in Selectors : Slice(v, sel)
    \/ \E v \in Ids(views), w \in Ids(views) : Concatenate(v, <<w>>)
    \/ \E v \in Newest : DoLen(v)
    \/ \E v \in Newest : DoKeys(v)
    \/ \E v \in Newest, k \in AskedIds : DoGetItem(v, StrItem(k))
    \/ \E v \in Newest : \E i \in Positions(v) : DoGetItem(v, IntItem(i))
    \/ \E v \in Newest : DoIter(v)

Spec == Init /\ [][Next]_vars

---------------------------------------------------------------------------
(* The state machine of the object level: a caller reads the first source    *)
(* through the Map views it stacks on it, and changes the examples it got    *)

\* the views of the pipeline, for the value that a call returns
Pipeline(fns) == <<Sources[1]>> \o [j \in 1..Len(fns) |-> MapIterator(fns[j], j)]

\* the value of the example item names, as the pipeline returns it when nobody
\* has changed anything: the value-level result, and the nested dict mapped
\* likewise
Fresh(fns, item) ==
    LET e == getitem(Pipeline(fns), Len(fns) + 1, item).r.val
        key == ExamplesIterator_key(Sources, 1, item).val
        incrs == Cardinality({j \in 1..Len(fns) : fns[j] = "incr"})
    IN  [example_id |-> e.example_id, x |-> e.x,
         sub |-> (StoredExample(Examples1, key).x + incrs) % (MaxVal + 1)]

\* an example in the hands of the caller: its reference, the key it was asked
\* by, the value the caller expects it to have, whether the caller has changed
\* it, and whether it was returned after the caller changed an earlier example
\* of the same key
Handle(ref, fns, item) ==
    LET key == ExamplesIterator_key(Sources, 1, item).val
    IN  [ref |-> ref, key |-> key, expect |-> Fresh(fns, item), mutated |-> FALSE,
         stale |-> \E i \in DOMAIN handles :
                      handles[i].key = key /\ handles[i].mutated]

ValueLevelUnchanged == UNCHANGED <<views, last, firstPass, scalarIndex, generators>>

\* source.map(map_fn), map_fn on top of the Map views stacked so far
IsoMap(fn) ==
    /\ Len(building) < MaxViews
    /\ building' = Append(building, fn)
    /\ UNCHANGED <<heap, handles>>
    /\ ValueLevelUnchanged

\* example = pipeline[item]
IsoGetItem(item) ==
    /\ Len(heap) + 2 <= MaxObjs
    /\ LET c == MapIterator_getitem_object(heap, building, Len(building), item)
       IN  /\ heap' = c.heap
           /\ handles' = IF Returned(c.r)
                         THEN Append(handles, Handle(c.r.val, building, item))
                         ELSE handles
    /\ UNCHANGED building
    /\ ValueLevelUnchanged

\* examples = list(pipeline)
IsoIter ==
    /\ Len(heap) + 2 * Len(Examples1) <= MaxObjs
    /\ LET ks == ExamplesIterator_keys(Sources, 1).r.val.v
           p == iter_object(heap, building, ks, 1)
       IN  /\ heap' = p.heap
           /\ handles' = handles \o
                  [j \in 1..Len(ks) |-> Handle(p.out[j], building, StrItem(ks[j]))]
    /\ UNCHANGED building
    /\ ValueLevelUnchanged

\* example['x'] = val, or example[nested]['x'] = val, on an example the caller
\* holds
IsoMutate(j, field, val) ==
    /\ IF field = "x"
       THEN /\ heap[handles[j].ref].x # val
            /\ heap' = [heap EXCEPT ![handles[j].ref].x = val]
            /\ handles' = [handles EXCEPT ![j].expect.x = val,
                                          ![j].mutated = TRUE]
       ELSE /\ heap[heap[handles[j].ref].sub].x # val
            /\ heap' = [heap EXCEPT ![heap[handles[j].ref].sub].x = val]
            /\ handles' = [handles EXCEPT ![j].expect.sub = val,
                                          ![j].mutated = TRUE]
    /\ UNCHANGED building
    /\ ValueLevelUnchanged

NextIso ==
    \/ \E fn \in MapFns : IsoMap(fn)
    \/ \E k \in AskedIds : IsoGetItem(StrItem(k))
    \/ \E i \in -1..Len(Examples1) : IsoGetItem(IntItem(i))
    \/ IsoIter
    \/ \E j \in DOMAIN handles, field \in {"x", "sub"}, val \in 0..MaxVal :
          IsoMutate(j, field, val)

SpecIso == Init /\ [][NextIso]_vars

---------------------------------------------------------------------------
(* The state machine of the generator level: a single-threaded caller holds  *)
(* generator objects of ReShuffleIterator.__iter__ and pulls from them in    *)
(* any order                                                                 *)

\* The generator object of one call of ReShuffleIterator.__iter__ on view v.
\* Calling __iter__ runs none of its body.  `pos` is the index of the
\* iterator of `for idx in self.permutation`, which reads the array in place
\* at every step; `out` is what the generator has yielded.
Generator(v) == [view |-> v, state |-> "created", pos |-> 0, out |-> <<>>]

\* yield self.input_iterator[idx], c being what self.input_iterator[idx]
\* answered
Yielded(c, g) ==
    IF c.r.tag = "raise"
    THEN [vs |-> c.vs, g |-> [g EXCEPT !.state = "raised"]]
    ELSE [vs |-> c.vs,
          g |-> [g EXCEPT !.state = "suspended", !.pos = @ + 1,
                          !.out = Append(@, c.r)]]

\* one step of `for idx in self.permutation`, on the array as it is now
ReShuffleIterator_iter_step(vs, g) ==
    IF g.pos >= Len(vs[g.view].permutation)
    THEN [vs |-> vs, g |-> [g EXCEPT !.state = "exhausted"]]
    ELSE Yielded(getitem(vs, vs[g.view].input,
                         IntItem(vs[g.view].permutation[g.pos + 1])), g)

\* next(generator): the first one runs np.random.shuffle(self.permutation)
\* and enters the loop, a later one resumes the loop
ReShuffleIterator_iter_next(vs, g, seed) ==
    IF g.state = "created"
    THEN ReShuffleIterator_iter_step(
            [vs EXCEPT ![g.view].permutation = shuffle(@, seed)], g)
    ELSE ReShuffleIterator_iter_step(vs, g)

\* the generator and the views after next(generator)
Pulled(k, n) ==
    /\ views' = n.vs
    /\ generators' = [generators EXCEPT ![k] = n.g]

\* iter(view) on a ReShuffleIterator
StartPass(v) ==
    /\ views[v].kind = "ReShuffle"
    /\ Len(generators) < MaxPasses
    /\ generators' = Append(generators, Generator(v))
    /\ UNCHANGED <<views, last, firstPass, scalarIndex, heap, handles, building>>

\* next(generator) on a generator that has not ended
PullPass(k) ==
    /\ generators[k].state \in {"created", "suspended"}
    /\ \E seed \in Seeds(Len(views[generators[k].view].permutation)) :
          /\ generators[k].state # "created" => seed = 0
          /\ Pulled(k, ReShuffleIterator_iter_next(views, generators[k], seed))
    /\ UNCHANGED <<last, firstPass, scalarIndex, heap, handles, building>>

NextPasses ==
    \/ \E v \in Ids(views), fn \in MapFns : Map(v, fn)
    \/ \E v \in Ids(views), w \in Ids(views) : Concatenate(v, <<w>>)
    \/ \E v \in Ids(views) : ReShuffle(v)
    \/ \E v \in Ids(views) : StartPass(v)
    \/ \E k \in DOMAIN generators : PullPass(k)

SpecPasses == Init /\ [][NextPasses]_vars

---------------------------------------------------------------------------
(* Vocabulary of the properties *)

LastView == views[last.view]

\* the error kinds of the specification
KeyNotFound(r) == r.tag = "raise" /\ r.exc \in {"IndexError", "KeyError"}
DuplicateKey(r) == Raised(r, "AssertionError")
\* the exceptions with which the classes refuse an operation: the inherited
\* default of BaseIterator, the raise of ReShuffleIterator.__getitem__ and the
\* assert of FilterIterator.__getitem__
UnsupportedOperation(r) ==
    r.tag = "raise"
    /\ r.exc \in {"NotImplementedError", "TypeError", "AssertionError"}

\* the views a view reads, itself included
RECURSIVE Below(_, _)
Below(vs, v) ==
    {v} \cup
    CASE vs[v].kind = "Examples" -> {}
      [] vs[v].kind = "Concatenate" ->
            UNION {Below(vs, vs[v].inputs[j]) : j \in 1..Len(vs[v].inputs)}
      [] OTHER -> Below(vs, vs[v].input)

\* every map function of the pipeline keeps the example id
IdPreservingPipeline(v) ==
    \A u \in Below(views, v) : views[u].kind = "Map" => IdPreserving(views[u].fn)

SourceKeys(w) == {w.examples[i].key : i \in 1..Len(w.examples)}

\* a Concatenate of two or more Example Sources with pairwise disjoint ids
DisjointSources(w) ==
    /\ w.kind = "Concatenate"
    /\ Len(w.inputs) >= 2
    /\ \A i \in 1..Len(w.inputs) : views[w.inputs[i]].kind = "Examples"
    /\ \A i, j \in 1..Len(w.inputs) :
          i # j => SourceKeys(views[w.inputs[i]])
                       \cap SourceKeys(views[w.inputs[j]]) = {}

\* what keys() of view v answers in this state
KeysNow(v) == keys(views, v).r
\* what len() of view v answers
LenNow(v) == len(views, v)

\* the key sequences of the inputs of Concatenate view w, joined; <<>> when an
\* input has no key list
RECURSIVE JoinedKeys(_, _)
JoinedKeys(vins, j) ==
    IF j > Len(vins) THEN <<>>
    ELSE (IF Returned(KeysNow(vins[j])) THEN ListOf(KeysNow(vins[j]).val) ELSE <<>>)
         \o JoinedKeys(vins, j + 1)

InputsHaveKeys(w) == \A j \in 1..Len(w.inputs) : Returned(KeysNow(w.inputs[j]))

SharedId(w) ==
    /\ w.kind = "Concatenate"
    /\ InputsHaveKeys(w)
    /\ Len(JoinedKeys(w.inputs, 1)) # Distinct(JoinedKeys(w.inputs, 1))

Positional == {"Examples", "Map", "Shuffle", "Slice", "Concatenate"}

---------------------------------------------------------------------------
(* C1 *)

\* C1: on a Concatenate of two or more Example Sources with pairwise disjoint
\* ids, get_by_key(k) for a key k of any of the sources returns the example
\* the owning source stores under k.
C1_ConcatenateGetByKey ==
    ( /\ last.op = "getitem"
      /\ last.item.t = "str"
      /\ DisjointSources(LastView)
      /\ \E j \in 1..Len(LastView.inputs) :
            last.item.s \in SourceKeys(views[LastView.inputs[j]]) )
    => /\ Returned(last.r)
       /\ \E j \in 1..Len(LastView.inputs) :
             /\ last.item.s \in SourceKeys(views[LastView.inputs[j]])
             /\ last.r.val = StoredExample(views[LastView.inputs[j]].examples,
                                           last.item.s)

---------------------------------------------------------------------------
(* C2 *)

\* C2: when the key sequences of the inputs of a Concatenate share an id, every
\* call of keys() and of get_by_key fails with DuplicateKey: none returns a key
\* list or an example, the first call or a later one.
C2_DuplicateDetection ==
    ( /\ last.op \in {"keys", "getitem"}
      /\ last.op = "getitem" => last.item.t = "str"
      /\ SharedId(LastView) )
    => DuplicateKey(last.r)

---------------------------------------------------------------------------
(* C4 *)

\* C4: for a view that has keys() and positions (the map functions keeping
\* the id) and every i in [0, length()), the id of get_by_position(i) is
\* keys()[i].
C4_IndexKeyConsistency ==
    ( /\ last.op = "getitem"
      /\ last.item.t = "int"
      /\ IdPreservingPipeline(last.view)
      /\ Returned(LenNow(last.view))
      /\ 0 <= last.item.i /\ last.item.i < LenNow(last.view).val
      /\ Returned(KeysNow(last.view))
      /\ KeysNow(last.view).val.t = "list" )
    => /\ Returned(last.r)
       /\ last.item.i < Len(KeysNow(last.view).val.v)
       /\ last.r.val.example_id = KeysNow(last.view).val.v[last.item.i + 1]

---------------------------------------------------------------------------
(* C5 *)

\* C5: on a view with positions, get_by_position(i) with i outside
\* [0, length()), below or above, fails with an index error; it returns
\* neither an example nor any other value.
C5_PositionalRangeCheck ==
    ( /\ last.op = "getitem"
      /\ last.item.t = "int"
      /\ LastView.kind \in Positional
      /\ Returned(LenNow(last.view))
      /\ (last.item.i < 0 \/ last.item.i >= LenNow(last.view).val) )
    => Raised(last.r, "IndexError")

---------------------------------------------------------------------------
(* C7 *)

\* C7: whenever keys() returns a key list, length() is the number of distinct
\* keys in it.
C7_CardinalityConsistency ==
    ( /\ last.op = "keys"
      /\ Returned(last.r)
      /\ last.r.val.t = "list"
      /\ Returned(LenNow(last.view)) )
    => LenNow(last.view).val = Distinct(last.r.val.v)

---------------------------------------------------------------------------
(* C8 *)

\* the keys of the input of Slice view w at the positions resolved at
\* construction
SelectedKeys(w) ==
    LET ks == KeysNow(w.input).val.v
    IN  [i \in 1..Len(w.slice) |-> ks[w.slice[i] + 1]]

\* C8: keys() of a Slice returns the input's keys at the resolved positions,
\* one key per position, for resolved arrays of any size; get_by_key(k)
\* returns the input's get_by_key(k) if k is one of them and fails with
\* KeyNotFound otherwise.
C8_SliceKeyAddressing ==
    ( /\ last.op \in {"keys", "getitem"}
      /\ last.op = "getitem" => last.item.t = "str"
      /\ LastView.kind = "Slice"
      /\ Returned(KeysNow(LastView.input))
      /\ KeysNow(LastView.input).val.t = "list"
      /\ Len(KeysNow(LastView.input).val.v) = LenNow(LastView.input).val )
    => IF last.op = "keys"
       THEN /\ Returned(last.r)
            /\ last.r.val = PyList(SelectedKeys(LastView))
       ELSE IF last.item.s \in Range(SelectedKeys(LastView))
            THEN last.r = getitem(views, LastView.input, last.item).r
            ELSE KeyNotFound(last.r)

---------------------------------------------------------------------------
(* C9 *)

\* the input of a Filter has keys(): no FilterIterator answers the call
HasKeys(v) == ~Raised(keys(views, v).r, "NotImplementedError")

\* one call of get_by_key or one pass on a Filter whose input has keys(),
\* against the input as it is when the call is made
C9_FilterStep ==
    LET w == views[last'.view]
        k == last'.item.s
        ku == keys(views, w.input).r
        eu == getitem(views, w.input, last'.item).r
        holds == /\ Returned(ku)
                 /\ Contains(ku.val, k)
                 /\ Returned(eu)
                 /\ filter_function(w.fn, eu.val)
    IN  /\ ( /\ last'.op = "getitem"
             /\ last'.item.t = "str"
             /\ w.kind = "Filter"
             /\ HasKeys(w.input) )
           => IF holds THEN last'.r = eu ELSE KeyNotFound(last'.r)
        /\ ( /\ last'.op = "iter"
             /\ w.kind = "Filter"
             /\ HasKeys(w.input) )
           => \E draws \in Draws(views, w.input) :
                 LET p == iter(views, w.input, draws, 0)
                 IN  /\ last'.r = p.r
                     /\ last'.out = SelectSeq(p.out,
                            LAMBDA e : filter_function(w.fn, e.val))

\* C9: a pass over view.filter(p) yields the examples of a pass over view for
\* which p holds, each once and in the order of view; get_by_key(k) on the
\* filtered view returns the example view returns for k if k is in the keys of
\* view and p holds on that example, and fails with KeyNotFound otherwise.
C9_FilterSemantics == [][C9_FilterStep]_vars

---------------------------------------------------------------------------
(* C6 *)

\* the examples the root sources below view v store under key k, mapped by
\* the map functions on the way up to v
RECURSIVE StoredUnder(_, _)
StoredUnder(v, k) ==
    LET w == views[v]
    IN  CASE w.kind = "Examples" ->
                {Example(k, w.examples[i].x) :
                    i \in {i \in 1..Len(w.examples) : w.examples[i].key = k}}
          [] w.kind = "Map" ->
                {map_function(w.fn, e) : e \in StoredUnder(w.input, k)}
          [] w.kind = "Concatenate" ->
                UNION {StoredUnder(w.inputs[j], k) : j \in 1..Len(w.inputs)}
          [] OTHER -> StoredUnder(w.input, k)

\* C6: on a pipeline whose map functions keep the id, an example that
\* get_by_key(k) returns has the id k and is the (mapped) example a root source
\* stores under k; no view returns the example of another key.
C6_KeyStability ==
    ( /\ last.op = "getitem"
      /\ last.item.t = "str"
      /\ IdPreservingPipeline(last.view)
      /\ Returned(last.r) )
    => /\ last.r.val.example_id = last.item.s
       /\ last.r.val \in StoredUnder(last.view, last.item.s)

\* get_by_key has returned an example through a Slice of an upstream view
C6_Witness ==
    /\ last.op = "getitem"
    /\ last.item.t = "str"
    /\ IdPreservingPipeline(last.view)
    /\ Returned(last.r)
    /\ LastView.kind = "Slice"

---------------------------------------------------------------------------
(* C10 *)

IsPermutation(array) ==
    /\ \A i \in 0..(Len(array) - 1) : \E j \in 1..Len(array) : array[j] = i
    /\ \A j \in 1..Len(array) : array[j] \in 0..(Len(array) - 1)

\* the elements of a sequence with their multiplicities
BagOf(s) == [e \in Range(s) |-> Cardinality({i \in 1..Len(s) : s[i] = e})]

\* in every state: the permutation of a ShuffleIterator is a bijection on
\* [0, length()), its keys are the keys of its input, and a pass over it yields
\* what the remembered pass over it yielded, in the same order
C10_ShuffleState ==
    /\ \A v \in Ids(views) :
          views[v].kind = "Shuffle" =>
             /\ LenNow(v) = Return(Len(views[v].permutation))
             /\ LenNow(v) = LenNow(views[v].input)
             /\ IsPermutation(views[v].permutation)
             /\ KeysNow(v).tag = KeysNow(views[v].input).tag
             /\ Returned(KeysNow(v)) =>
                   BagOf(ListOf(KeysNow(v).val))
                      = BagOf(ListOf(KeysNow(views[v].input).val))
    /\ (last.op = "iter" /\ last.view = firstPass.view) =>
          /\ last.out = firstPass.out
          /\ last.r = firstPass.r

\* in every step: no call changes the permutation of a ShuffleIterator, and
\* get_by_position(i) with i in [0, length()) answers what the input answers
\* at permutation[i]
C10_ShuffleStep ==
    /\ \A v \in Ids(views) :
          views[v].kind = "Shuffle" =>
             views'[v].permutation = views[v].permutation
    /\ ( /\ last'.op = "getitem"
         /\ last'.item.t = "int"
         /\ views[last'.view].kind = "Shuffle"
         /\ 0 <= last'.item.i
         /\ last'.item.i < Len(views[last'.view].permutation) )
       => last'.r = getitem(views, views[last'.view].input,
                            IntItem(views[last'.view].permutation[last'.item.i + 1])).r

\* C10: the permutation of a static Shuffle is a bijection on [0, length())
\* that no later call changes: two passes yield the same order,
\* get_by_position(i) is the input's get_by_position(permutation[i]), and the
\* multiset of keys is the input's.
C10_StaticShuffle == []C10_ShuffleState /\ [][C10_ShuffleStep]_vars

\* a second pass over a ShuffleIterator of two or more examples has been made
C10_Witness ==
    /\ firstPass.later
    /\ last.op = "iter"
    /\ last.view = firstPass.view
    /\ Len(last.out) >= 2
    /\ last.out[1] # last.out[2]

---------------------------------------------------------------------------
(* C3 *)

\* the objects an example in the hands of the caller consists of
ObjectsOf(j) == {handles[j].ref, heap[handles[j].ref].sub}

\* C3: whatever the caller does to the examples it was returned, the mapping
\* stored in the source keeps its value, and every example the caller holds,
\* returned before or after, has the value the pipeline gives it, changed only
\* by what the caller did to this very example; no two of them, and none of
\* them and the source, share an object.
C3_Isolation ==
    /\ \A r \in DOMAIN StoredHeap : heap[r] = StoredHeap[r]
    /\ \A j \in DOMAIN handles :
          /\ Deep(heap, handles[j].ref) = handles[j].expect
          /\ ObjectsOf(j) \cap DOMAIN StoredHeap = {}
          /\ \A i \in DOMAIN handles : i # j => ObjectsOf(i) \cap ObjectsOf(j) = {}

\* the caller has changed the nested dict of a mapped example, and was then
\* returned another example of the same key
C3_Witness ==
    \E i, j \in DOMAIN handles :
        /\ i < j
        /\ handles[i].key = handles[j].key
        /\ handles[i].mutated
        /\ handles[i].expect.sub # Fresh(building, StrItem(handles[i].key)).sub
        /\ handles[j].stale
        /\ building # <<>>

---------------------------------------------------------------------------
\* C11: Unsupported operations fail explicitly.  In every state, for every
\* view: len() of a FilterIterator, filter[i] for an integer i and
\* reshuffle[i] for an integer i raise an exception of the UnsupportedOperation
\* kind and never return a value; filter[key] and reshuffle[key] for a str
\* still answer what the input answers for that key (for the filter: unless
\* the input returns an example the predicate rejects, which is KeyNotFound);
\* and building a ShuffleIterator or a SliceIterator directly on a
\* FilterIterator fails.

\* the integers a caller may ask with
AskedPositions == -1..MaxLen

\* filter[key] answers what the input answers, the predicate applied
FilterDelegates(v, k) ==
    LET c == getitem(views, v, StrItem(k))
        up == getitem(views, views[v].input, StrItem(k))
    IN  IF Returned(up.r) /\ ~filter_function(views[v].fn, up.r.val)
        THEN KeyNotFound(c.r)
        ELSE c = up

\* reshuffle[key] answers what the input answers
ReShuffleDelegates(v, k) ==
    getitem(views, v, StrItem(k)) = getitem(views, views[v].input, StrItem(k))

\* no view that needs the length can be built directly on the view v
NoLengthOn(v) ==
    /\ \A seed \in 0..1 : ~Returned(ShuffleIterator(views, v, seed))
    /\ \A sel \in Selectors :
          /\ ~Returned(SliceIterator(views, sel, v))
          /\ ~Returned(getitem_selector(views, v, sel))

C11_UnsupportedOperations ==
    \A v \in Ids(views) :
        /\ views[v].kind = "Filter" =>
              /\ UnsupportedOperation(len(views, v))
              /\ \A i \in AskedPositions :
                    UnsupportedOperation(getitem(views, v, IntItem(i)).r)
              /\ \A k \in AskedIds : FilterDelegates(v, k)
              /\ NoLengthOn(v)
        /\ views[v].kind = "ReShuffle" =>
              /\ \A i \in AskedPositions :
                    UnsupportedOperation(getitem(views, v, IntItem(i)).r)
              /\ \A k \in AskedIds : ReShuffleDelegates(v, k)

\* reshuffle[i] has just raised for a position inside the view, a
\* FilterIterator has been built as well, and a key of the input is answered
\* through the reshuffle
C11_Witness ==
    /\ last.op = "getitem"
    /\ LastView.kind = "ReShuffle"
    /\ last.item.t = "int"
    /\ last.item.i \in 0..(Len(LastView.permutation) - 1)
    /\ Raised(last.r, "TypeError")
    /\ \E v \in Ids(views) : views[v].kind = "Filter"
    /\ \E k \in AskedIds : Returned(getitem(views, last.view, StrItem(k)).r)

---------------------------------------------------------------------------
\* C12: Passes of a ReShuffleIterator are complete.  At every read
\* self.permutation is a permutation of 0..n-1, and every pass that has been
\* consumed to its end has yielded each example of the input exactly once,
\* for any sequence of passes over the same view, also when the caller starts
\* and pulls from a second pass before the first one is consumed to its end.

\* the examples of the input of the ReShuffleIterator v, by position
Upstream(v) ==
    [i \in 1..Len(views[v].permutation) |->
        getitem(views, views[v].input, IntItem(i - 1)).r]

C12_ReshufflePassesComplete ==
    /\ \A v \in Ids(views) :
          views[v].kind = "ReShuffle" => IsPermutation(views[v].permutation)
    /\ \A k \in DOMAIN generators :
          generators[k].state = "exhausted" =>
              BagOf(generators[k].out) = BagOf(Upstream(generators[k].view))

====
